---- MODULE Spec2Model ----
(***************************************************************************)
(* Model of src/app/articles/[...slug]/page.tsx: the article page of the   *)
(* portfolio site.  A request carries params.slug, a list of path          *)
(* segments.  generateMetadata and ArticlePage each look the article up in *)
(* the contentlayer collection allArticles; generateMetadata builds the    *)
(* metadata bag, ArticlePage renders the record or calls notFound().       *)
(*                                                                         *)
(* Strings are TLA+ strings, so that join and the template literal of the  *)
(* canonical URL are computed by concatenation as the code computes them.  *)
(***************************************************************************)
EXTENDS Integers, Sequences, FiniteSets, TLC

(***************************************************************************)
(* Bounds of the model.                                                    *)
(***************************************************************************)
\* longest joined request path (in characters) that is enumerated
MaxPathLen == 3
\* longest article collection that is enumerated
MaxArticles == 2

(***************************************************************************)
(* JavaScript values.                                                      *)
(***************************************************************************)
undefined == [type |-> "undefined"]
null == [type |-> "null"]

\* !v for the values the page handles: a record is truthy
Falsy(v) == v \in {undefined, null}

(***************************************************************************)
(* Request paths: params.slug is a list of non-empty segments.  A segment  *)
(* of a catch-all route is URL-decoded, so it may itself contain "/".      *)
(***************************************************************************)
Alphabet == {"a", "/"}

RECURSIVE Strings(_)
Strings(n) ==
  IF n = 0 THEN {""}
  ELSE LET S == Strings(n - 1) IN S \cup {s \o c : s \in S, c \in Alphabet}

Segments == Strings(MaxPathLen) \ {""}

\* Array.prototype.join: "" for the empty array, no separator around a
\* single element
RECURSIVE join(_, _)
join(slug, sep) ==
  IF slug = <<>> THEN ""
  ELSE IF Len(slug) = 1 THEN slug[1]
  ELSE slug[1] \o sep \o join(Tail(slug), sep)

MaxSegs == (MaxPathLen + 1) \div 2

\* the params objects a request may carry: every split of every path of at
\* most MaxPathLen characters, and the path of the article of the site
Params ==
  {[slug |-> s] :
     s \in {p \in UNION {[1..n -> Segments] : n \in 0..MaxSegs} :
              Len(join(p, "/")) <= MaxPathLen}
           \cup {<<"authentication-nextjs">>}}

(***************************************************************************)
(* Article records of contentlayer/generated, with the fields the page     *)
(* reads.  id stands for the identity of the object.  description is       *)
(* optional: <<>> when absent, <<d>> when present.  slug is the field the  *)
(* canonical URL is built from; contentlayer computes it apart from        *)
(* slugAsParams, so both the bare path and the routed path occur.          *)
(***************************************************************************)
Article(id, slugAsParams, slug, title, description, date, timeToRead) ==
  [id |-> id, slugAsParams |-> slugAsParams, slug |-> slug, title |-> title,
   description |-> description, date |-> date, timeToRead |-> timeToRead,
   body |-> [code |-> "code-" \o title]]

ArtA == Article("A", "a", "a", "Title A", <<"About A">>, "2023-09-19", "5")
ArtADup == Article("A2", "a", "/articles/a", "Title A2", <<>>, "2024-01-02", "3")
ArtAA == Article("AA", "a/a", "a/a", "Title AA", <<"About AA">>, "2022-05-06", "7")
ArtEmpty == Article("E", "", "", "Title E", <<>>, "2021-03-04", "1")
ArtAuth ==
  Article("Auth", "authentication-nextjs", "/articles/authentication-nextjs",
          "Implement authentication system using Next.js with app dir",
          <<"A guide that explains how to build a authentication system">>,
          "2023-09-19", "5")

ArticlePool == {ArtA, ArtADup, ArtAA, ArtEmpty, ArtAuth}

\* collections of distinct objects, in any order
Collections ==
  {c \in UNION {[1..n -> ArticlePool] : n \in 0..MaxArticles} :
     \A i, j \in 1..Len(c) : i # j => c[i] # c[j]}

\* the collections used where several requests are in flight
SiteCollections ==
  {<<ArtA, ArtADup, ArtAA, ArtEmpty>>, <<ArtAA, ArtADup, ArtA>>, <<ArtAuth>>, <<>>}

Requests == {"r1", "r2"}

VARIABLES
  allArticles,  \* the collection imported from contentlayer/generated
  params,       \* params[r]: the params object of request r
  metaPc,       \* "idle", "pending", "done": generateMetadata of request r
  metadata,     \* what generateMetadata returned for request r
  pagePc,       \* "idle", "start", "awaiting", "found", "notFound"
  article,      \* the local variable article of ArticlePage for request r
  reads,        \* the fields of article that ArticlePage has read
  page          \* what the request was answered with

vars == <<allArticles, params, metaPc, metadata, pagePc, article, reads, page>>

(***************************************************************************)
(* Array.prototype.find with the predicate of lines 25 and 53: the first   *)
(* record whose slugAsParams equals s, undefined when there is none.       *)
(***************************************************************************)
Matches(articles, s) == {i \in 1..Len(articles) : articles[i].slugAsParams = s}

findLast(articles, s) ==
  LET M == Matches(articles, s) IN
  IF M = {} THEN undefined
  ELSE articles[CHOOSE i \in M : \A j \in M : j <= i]

find(articles, s) ==
  LET M == Matches(articles, s) IN
  IF M = {} THEN undefined
  ELSE articles[CHOOSE i \in M : \A j \in M : i <= j]

(***************************************************************************)
(* getArticleFromParams, lines 51-58.                                      *)
(***************************************************************************)
getArticleFromParamsFirstSegment(articles, p) ==
  LET found == find(articles, IF p.slug = <<>> THEN "" ELSE p.slug[1]) IN
  IF Falsy(found) THEN null ELSE found

getArticleFromParamsDash(articles, p) ==
  LET found == find(articles, join(p.slug, "-")) IN
  IF Falsy(found) THEN null ELSE found

getArticleFromParamsLast(articles, p) ==
  LET found == findLast(articles, join(p.slug, "/")) IN
  IF Falsy(found) THEN null ELSE found

getArticleFromParams(articles, p) ==
  LET slug == join(p.slug, "/")
      found == find(articles, slug)
  IN IF Falsy(found) THEN null ELSE found

(***************************************************************************)
(* generateMetadata, lines 16-49.                                          *)
(***************************************************************************)
SiteArticles == "https://benjoquilario.vercel.app/articles/"

MetadataOf(a) ==
  [title |-> a.title,
   description |-> a.description,
   openGraph |-> [title |-> a.title,
                  description |-> a.description,
                  type |-> "article",
                  publishedTime |-> a.date,
                  url |-> SiteArticles \o a.slug],
   twitter |-> [card |-> "summary_large_image",
                title |-> a.title,
                description |-> a.description]]

generateMetadataBySlug(articles, p) ==
  LET M == {i \in 1..Len(articles) : articles[i].slug = join(p.slug, "/")} IN
  IF M = {} THEN undefined
  ELSE MetadataOf(articles[CHOOSE i \in M : \A j \in M : i <= j])

generateMetadataHead(articles, p) ==
  LET found == find(articles, join(p.slug, "/")) IN
  IF Falsy(found) THEN undefined
  ELSE [MetadataOf(found) EXCEPT !.title = articles[1].title]

generateMetadata(articles, p) ==
  LET found == find(articles, join(p.slug, "/")) IN
  IF Falsy(found) THEN undefined ELSE MetadataOf(found)

(***************************************************************************)
(* ArticlePage, lines 60-96.                                               *)
(***************************************************************************)
NotFoundPage == [type |-> "not-found"]
NoPage == [type |-> "none"]
ArticleFields == {"title", "description", "date", "timeToRead", "body.code"}

\* the element of lines 65-95
Render(a) ==
  [type |-> "article",
   h1 |-> a.title,
   p |-> a.description,
   date |-> a.date,
   minRead |-> a.timeToRead \o " min read",
   mdx |-> a.body.code]

\* a request arrives: the router hands params to both entry points
Arrive(r, p) ==
  /\ pagePc[r] = "idle"
  /\ params' = [params EXCEPT ![r] = p]
  /\ metaPc' = [metaPc EXCEPT ![r] = "pending"]
  /\ pagePc' = [pagePc EXCEPT ![r] = "start"]
  /\ UNCHANGED <<allArticles, metadata, article, reads, page>>

\* generateMetadata has no await: it runs to completion in one step
GenerateMetadataReverse(r) ==
  /\ metaPc[r] = "pending"
  /\ metadata' = [metadata EXCEPT ![r] = generateMetadata(allArticles, params[r])]
  /\ allArticles' = [i \in 1..Len(allArticles) |-> allArticles[Len(allArticles) + 1 - i]]
  /\ metaPc' = [metaPc EXCEPT ![r] = "done"]
  /\ UNCHANGED <<params, pagePc, article, reads, page>>

GenerateMetadata(r) ==
  /\ metaPc[r] = "pending"
  /\ metadata' = [metadata EXCEPT ![r] = generateMetadata(allArticles, params[r])]
  /\ metaPc' = [metaPc EXCEPT ![r] = "done"]
  /\ UNCHANGED <<allArticles, params, pagePc, article, reads, page>>

\* line 61 up to the await: the lookup runs, ArticlePage is suspended
CallGetArticleShift(r) ==
  /\ pagePc[r] = "start"
  /\ article' = [article EXCEPT ![r] = getArticleFromParams(allArticles, params[r])]
  /\ allArticles' = IF allArticles = <<>> THEN <<>> ELSE Tail(allArticles)
  /\ pagePc' = [pagePc EXCEPT ![r] = "awaiting"]
  /\ UNCHANGED <<params, metaPc, metadata, reads, page>>

CallGetArticle(r) ==
  /\ pagePc[r] = "start"
  /\ article' = [article EXCEPT ![r] = getArticleFromParams(allArticles, params[r])]
  /\ pagePc' = [pagePc EXCEPT ![r] = "awaiting"]
  /\ UNCHANGED <<allArticles, params, metaPc, metadata, reads, page>>

\* lines 63-96 after the await: notFound() throws, so nothing after line 63
\* runs when article is null; otherwise the element is built from the record
ResumeNoCheck(r) ==
  /\ pagePc[r] = "awaiting"
  /\ pagePc' = [pagePc EXCEPT ![r] = "found"]
  /\ reads' = [reads EXCEPT ![r] = ArticleFields]
  /\ page' = [page EXCEPT ![r] = [type |-> "article"]]
  /\ UNCHANGED <<allArticles, params, metaPc, metadata, article>>

ResumeRetry(r) ==
  /\ pagePc[r] \in {"awaiting", "notFound"}
  /\ IF Falsy(article[r])
     THEN /\ pagePc' = [pagePc EXCEPT ![r] = IF @ = "awaiting" THEN "notFound" ELSE "start"]
          /\ page' = [page EXCEPT ![r] = NotFoundPage]
          /\ UNCHANGED reads
     ELSE /\ pagePc' = [pagePc EXCEPT ![r] = "found"]
          /\ reads' = [reads EXCEPT ![r] = ArticleFields]
          /\ page' = [page EXCEPT ![r] = Render(article[r])]
  /\ UNCHANGED <<allArticles, params, metaPc, metadata, article>>

Resume(r) ==
  /\ pagePc[r] = "awaiting"
  /\ IF Falsy(article[r])
     THEN /\ pagePc' = [pagePc EXCEPT ![r] = "notFound"]
          /\ page' = [page EXCEPT ![r] = NotFoundPage]
          /\ UNCHANGED reads
     ELSE /\ pagePc' = [pagePc EXCEPT ![r] = "found"]
          /\ reads' = [reads EXCEPT ![r] = ArticleFields]
          /\ page' = [page EXCEPT ![r] = Render(article[r])]
  /\ UNCHANGED <<allArticles, params, metaPc, metadata, article>>

NoParams == [slug |-> <<>>]

InitRequests ==
  /\ params = [r \in Requests |-> NoParams]
  /\ metaPc = [r \in Requests |-> "idle"]
  /\ metadata = [r \in Requests |-> undefined]
  /\ pagePc = [r \in Requests |-> "idle"]
  /\ article = [r \in Requests |-> undefined]
  /\ reads = [r \in Requests |-> {}]
  /\ page = [r \in Requests |-> NoPage]

(***************************************************************************)
(* Spec: one request against every collection of at most MaxArticles       *)
(* records.                                                                *)
(***************************************************************************)
Init ==
  /\ allArticles \in Collections
  /\ InitRequests

Next ==
  \/ \E p \in Params : Arrive("r1", p)
  \/ GenerateMetadata("r1")
  \/ CallGetArticle("r1")
  \/ Resume("r1")

Spec == Init /\ [][Next]_vars

(***************************************************************************)
(* SpecConcurrent: the requests of Requests in flight together, their      *)
(* steps interleaved at the await of line 61, against the site's           *)
(* collections.                                                            *)
(***************************************************************************)
InitSite ==
  /\ allArticles \in SiteCollections
  /\ InitRequests

NextConcurrent ==
  \/ \E r \in Requests, p \in Params : Arrive(r, p)
  \/ \E r \in Requests : GenerateMetadata(r)
  \/ \E r \in Requests : CallGetArticle(r)
  \/ \E r \in Requests : Resume(r)

SpecConcurrent == InitSite /\ [][NextConcurrent]_vars

\* the event loop runs a pending call or continuation whenever there is one;
\* a request has finitely many steps, so each of them is run in the end
RunJob ==
  \E r \in Requests : GenerateMetadata(r) \/ CallGetArticle(r) \/ Resume(r)

FairSpec == SpecConcurrent /\ WF_vars(RunJob)

(***************************************************************************)
(* Properties.                                                             *)
(***************************************************************************)
Looked(r) == pagePc[r] \in {"awaiting", "found", "notFound"}
Terminal(r) == pagePc[r] \in {"found", "notFound"}
Path(r) == join(params[r].slug, "/")
First(S) == CHOOSE i \in S : \A j \in S : i <= j

\* C1: when a record whose slugAsParams equals the joined segments exists in
\* the collection, getArticleFromParams returns such a record of the
\* collection itself; otherwise it returns null.
C1_LookupReturnsMatch ==
  Looked("r1") =>
    IF \E i \in 1..Len(allArticles) : allArticles[i].slugAsParams = Path("r1")
    THEN \E i \in 1..Len(allArticles) :
           /\ allArticles[i].slugAsParams = Path("r1")
           /\ article["r1"] = allArticles[i]
    ELSE article["r1"] = null

C1_Witness ==
  /\ pagePc["r1"] = "found"
  /\ params["r1"].slug = <<"a", "a">>
  /\ allArticles = <<ArtA, ArtAA>>
  /\ article["r1"] = ArtAA

\* C2: generateMetadata returns undefined exactly when getArticleFromParams
\* returns null for the same params and the same collection.
C2_MetadataAgreesWithLookup ==
  (metaPc["r1"] = "done" /\ Looked("r1")) =>
    ((metadata["r1"] = undefined) <=> (article["r1"] = null))

C2_Witness ==
  /\ metaPc["r1"] = "done"
  /\ Looked("r1")
  /\ metadata["r1"] = undefined
  /\ article["r1"] = null
  /\ params["r1"].slug = <<"a", "/">>
  /\ allArticles = <<ArtADup, ArtAA>>

\* C3: a request whose segments match no record ends in the not-found state,
\* and a request in the not-found state has read no field of a record and
\* rendered nothing of the article.
C3_NotFoundReadsNothing ==
  \A r \in Requests :
    /\ (Terminal(r) /\ Matches(allArticles, Path(r)) = {}) => pagePc[r] = "notFound"
    /\ pagePc[r] = "notFound" => (reads[r] = {} /\ page[r] = NotFoundPage)

C3_Witness ==
  /\ pagePc["r1"] = "notFound"
  /\ Matches(allArticles, Path("r1")) = {}
  /\ allArticles # <<>>
  /\ reads["r1"] = {}
  /\ pagePc["r2"] = "found"
  /\ reads["r2"] = ArticleFields

\* C4: the Open Graph URL of a found article is the site origin followed by
\* "/articles/" followed by the joined segments of the request.
C4_CanonicalUrlIsRequestPath ==
  (metaPc["r1"] = "done" /\ metadata["r1"] # undefined) =>
    metadata["r1"].openGraph.url = SiteArticles \o Path("r1")

\* C5: the metadata bag of a found article takes title, description and
\* publishedTime from the matched record, with the fixed Open Graph type and
\* Twitter card.
C5_MetadataFromMatchedRecord ==
  (metaPc["r1"] = "done" /\ metadata["r1"] # undefined) =>
    LET M == Matches(allArticles, Path("r1"))
        a == allArticles[First(M)]
        m == metadata["r1"]
    IN /\ M # {}
       /\ m.title = a.title
       /\ m.description = a.description
       /\ m.openGraph.type = "article"
       /\ m.openGraph.publishedTime = a.date
       /\ m.openGraph.title = a.title
       /\ m.openGraph.description = a.description
       /\ m.twitter.card = "summary_large_image"
       /\ m.twitter.title = a.title
       /\ m.twitter.description = a.description

C5_Witness ==
  /\ metaPc["r1"] = "done"
  /\ allArticles = <<ArtA, ArtAA>>
  /\ params["r1"].slug = <<"a/a">>
  /\ metadata["r1"] # undefined
  /\ metadata["r1"].openGraph.title = "Title AA"

\* C6: two calls of the lookup with the same segments return the same result,
\* whatever the other request did in between.
C6_LookupIdempotent ==
  \A r, q \in Requests :
    (Looked(r) /\ Looked(q) /\ params[r].slug = params[q].slug) =>
      article[r] = article[q]

C6_Witness ==
  /\ pagePc["r1"] = "found"
  /\ metaPc["r1"] = "done"
  /\ Looked("r2")
  /\ params["r2"].slug = params["r1"].slug
  /\ article["r2"] = article["r1"]
  /\ article["r1"] = ArtADup

\* C7: no step of any request changes the article collection.
C7_CollectionNeverChanges == [][allArticles' = allArticles]_vars

C7_Witness ==
  /\ allArticles = <<ArtAA, ArtADup, ArtA>>
  /\ pagePc["r1"] = "found"
  /\ pagePc["r2"] = "notFound"
  /\ metaPc["r1"] = "done"
  /\ metaPc["r2"] = "done"

\* C8: when several records have the requested slugAsParams, generateMetadata
\* and getArticleFromParams both take the first of them in collection order,
\* so the metadata and the page of the request describe the same record.
C8_DuplicatesTakeFirst ==
  LET M == Matches(allArticles, Path("r1")) IN
  Cardinality(M) >= 2 =>
    /\ Looked("r1") => article["r1"] = allArticles[First(M)]
    /\ metaPc["r1"] = "done" =>
         /\ metadata["r1"] # undefined
         /\ metadata["r1"].title = allArticles[First(M)].title
    /\ (pagePc["r1"] = "found" /\ metaPc["r1"] = "done") =>
         page["r1"].h1 = metadata["r1"].title

C8_Witness ==
  /\ allArticles = <<ArtADup, ArtA>>
  /\ params["r1"].slug = <<"a">>
  /\ pagePc["r1"] = "found"
  /\ metaPc["r1"] = "done"
  /\ page["r1"].h1 = "Title A2"

\* C9: every page request eventually ends Found or NotFound, Found exactly
\* when the lookup matched, and nothing of the request changes after that.
C9_TerminalStates ==
  /\ \A r \in Requests : (pagePc[r] = "start") ~> Terminal(r)
  /\ [](\A r \in Requests :
          Terminal(r) => (pagePc[r] = "found" <=> Matches(allArticles, Path(r)) # {}))
  /\ [][\A r \in Requests :
          Terminal(r) => /\ pagePc'[r] = pagePc[r]
                         /\ page'[r] = page[r]
                         /\ article'[r] = article[r]
                         /\ params'[r] = params[r]]_vars

C9_Witness ==
  /\ pagePc["r1"] = "found"
  /\ pagePc["r2"] = "notFound"
  /\ page["r2"] = NotFoundPage
  /\ page["r1"] = Render(ArtAA)

\* C10: two requests whose segments have the same "/"-join get the same
\* lookup result and the same metadata however the path was split, and the
\* empty segment list is looked up as the empty string.
C10_SplitDoesNotMatter ==
  /\ \A r, q \in Requests :
       Path(r) = Path(q) =>
         /\ (Looked(r) /\ Looked(q)) => article[r] = article[q]
         /\ (metaPc[r] = "done" /\ metaPc[q] = "done") => metadata[r] = metadata[q]
  /\ \A r \in Requests :
       (Looked(r) /\ params[r].slug = <<>>) =>
         LET M == {i \in 1..Len(allArticles) : allArticles[i].slugAsParams = ""} IN
         article[r] = IF M = {} THEN null ELSE allArticles[First(M)]

C10_Witness ==
  /\ params["r1"].slug = <<"a", "a">>
  /\ params["r2"].slug = <<"a/a">>
  /\ Looked("r1")
  /\ Looked("r2")
  /\ article["r1"] = ArtAA
  /\ article["r2"] = ArtAA
  /\ metaPc["r1"] = "done"
  /\ metaPc["r2"] = "done"

====
